---- MODULE Spec2Model ----
(***************************************************************************)
(* Model of src/code.c++: a GLFW/OpenGL program that builds two shader     *)
(* programs sharing one vertex stage, uploads two quads, and draws them    *)
(* every frame until the window is asked to close.                         *)
(*                                                                         *)
(* main() is a single thread; pc is the statement it is about to execute.  *)
(* The window system, the driver's compile/link results and the clock are  *)
(* the environment and are chosen nondeterministically.                    *)
(***************************************************************************)
EXTENDS Integers, Sequences, FiniteSets, TLC

\* ---------------------------------------------------------------- bounds
\* Number of render-loop iterations explored.
MaxFrames == 3

\* ------------------------------------------------------ program constants
\* sizeof(unsigned int), the unit of the index byte offset (line 182).
SizeofUInt == 4
\* Significand width of the C++ float that holds timeValue (line 179).
FloatMantissaBits == 24
\* The count argument of both glDrawElements calls (lines 175, 182).
DrawCount == 6
\* The index offset, in elements, of the second draw (line 182).
SecondQuadFirstIndex == 6

Shaders  == {"vertexShader", "normalFrag", "waveFrag"}
Programs == {"normalShader", "waveShader"}
Buffers  == {"VBO", "EBO"}
Arrays   == {"VAO"}
Objects  == Shaders \cup Programs \cup Buffers \cup Arrays
\* The five objects the cleanup section releases (lines 189-193).
Resources == Arrays \cup Buffers \cup Programs
\* The GL name 0: no object.
NoObject == "0"

\* vertices[] (lines 121-134), in tenths: x, y, z, u, v per vertex.
vertices ==
  << -9, 5, 0,  0, 10,
     -9, 0, 0,  0,  0,
     -5, 0, 0, 10,  0,
     -5, 5, 0, 10, 10,
      5, 5, 0,  0, 10,
      5, 0, 0,  0,  0,
      9, 0, 0, 10,  0,
      9, 5, 0, 10, 10 >>

\* Variant: the second quad's second triangle starts at vertex 0.
indices_Shared == << 0, 1, 2, 0, 2, 3,  4, 5, 6, 0, 6, 7 >>

\* indices[] (lines 136-139).
indices == << 0, 1, 2, 0, 2, 3,  4, 5, 6, 4, 6, 7 >>

\* Which fragment stage each program attaches next to the shared vertex stage.
FragmentOf(p) == IF p = "normalShader" THEN "normalFrag" ELSE "waveFrag"

\* waveFragSource declares "uniform float time"; normalFragSource has no uniform.
HasTimeUniform(p) == p = "waveShader"

\* Clock increments between two glfwGetTime calls, in clock ticks: none, one
\* tick, or enough to pass the range where a float holds every tick exactly.
TimeSteps == {0, 1, 2 ^ FloatMantissaBits}

\* double -> float narrowing of `float timeValue = glfwGetTime()`:
\* round to nearest, ties to even, on a 24-bit significand.
RECURSIVE FloatScale(_, _)
FloatScale(n, s) ==
  IF n \div s < 2 ^ FloatMantissaBits THEN s ELSE FloatScale(n, 2 * s)

ToFloat(n) ==
  LET s    == FloatScale(n, 1)
      q    == n \div s
      r    == n % s
      half == s \div 2
  IN  IF s = 1 THEN n
      ELSE IF r > half \/ (r = half /\ q % 2 = 1) THEN (q + 1) * s
      ELSE q * s

VARIABLES
  pc,              \* statement main() executes next
  glfwOK,          \* result of glfwInit (ignored by the code)
  window,          \* "unset", "null" or "ok"
  contextCurrent,  \* a GL context is current on the thread
  glad,            \* "unset", "failed" or "ok"
  status,          \* per GL object: "none", "live", "flagged", "deleted"
  compileStatus,   \* GL_COMPILE_STATUS per shader
  linkStatus,      \* GL_LINK_STATUS per program
  attached,        \* shaders attached to each program
  out,             \* lines written to std::cout
  currentProgram,  \* GL current program
  lastUse,         \* argument of the latest glUseProgram call
  boundVAO,        \* GL vertex array binding
  arrayBuffer,     \* GL_ARRAY_BUFFER binding
  vaoElementBuffer,\* GL_ELEMENT_ARRAY_BUFFER binding stored in the VAO
  vaoAttribs,      \* enabled attribute descriptions stored in the VAO
  bufData,         \* data store of each buffer
  bufWrites,       \* number of glBufferData calls per buffer
  deleteCalls,     \* number of glDelete* calls per object
  usedAfterRelease,\* objects passed to a call after their glDelete* call
  glCalled,        \* some gl* entry point has been invoked
  glCalledUnloaded,\* some gl* entry point was invoked before loading
  uniformTime,     \* value of the "time" uniform of each program having one
  timeReceivers,   \* programs whose uniform state a glUniform1f call changed
  uniformCalls,    \* <<current program, location>> of each glUniform1f call
  now,             \* the clock read by glfwGetTime
  sampled,         \* clock samples taken in the current frame
  timeValue,       \* local float timeValue
  timeLoc,         \* local int timeLoc
  trace,           \* events of the current frame, in order
  drawLog,         \* draw calls of the current frame, in order
  frame,           \* number of loop iterations started
  closePending,    \* the user asked the window to close
  shouldClose,     \* the window's close flag
  framesAfterRequest, \* iterations started since closePending
  mainReturn       \* <<>> while running, <<code>> once main returned

objVars  == << status, deleteCalls, attached >>
shVars   == << compileStatus, linkStatus >>
bindVars == << boundVAO, arrayBuffer, vaoElementBuffer, vaoAttribs >>
bufVars  == << bufData, bufWrites >>
progVars == << currentProgram, lastUse, uniformTime, timeReceivers,
               uniformCalls >>
glVars   == << objVars, shVars, bindVars, bufVars, progVars >>
callVars == << glCalled, glCalledUnloaded, usedAfterRelease >>
winVars  == << glfwOK, window, contextCurrent, glad >>
closeVars == << closePending, shouldClose, framesAfterRequest >>
timeVars == << now, sampled, timeValue, timeLoc >>
frameVars == << trace, drawLog, frame >>
vars     == << pc, glVars, callVars, winVars, closeVars, timeVars, frameVars,
               out, mainReturn >>

Init ==
  /\ pc = "glfwInit"
  /\ glfwOK = FALSE
  /\ window = "unset"
  /\ contextCurrent = FALSE
  /\ glad = "unset"
  /\ status = [o \in Objects |-> "none"]
  /\ compileStatus = [s \in Shaders |-> FALSE]
  /\ linkStatus = [p \in Programs |-> FALSE]
  /\ attached = [p \in Programs |-> {}]
  /\ out = << >>
  /\ currentProgram = NoObject
  /\ lastUse = NoObject
  /\ boundVAO = NoObject
  /\ arrayBuffer = NoObject
  /\ vaoElementBuffer = NoObject
  /\ vaoAttribs = {}
  /\ bufData = [b \in Buffers |-> << >>]
  /\ bufWrites = [b \in Buffers |-> 0]
  /\ deleteCalls = [o \in Objects |-> 0]
  /\ usedAfterRelease = {}
  /\ glCalled = FALSE
  /\ glCalledUnloaded = FALSE
  /\ uniformTime = [p \in {q \in Programs : HasTimeUniform(q)} |-> 0]
  /\ timeReceivers = {}
  /\ uniformCalls = {}
  /\ now = 0
  /\ sampled = << >>
  /\ timeValue = 0
  /\ timeLoc = -1
  /\ trace = << >>
  /\ drawLog = << >>
  /\ frame = 0
  /\ closePending = FALSE
  /\ shouldClose = FALSE
  /\ framesAfterRequest = 0
  /\ mainReturn = << >>

\* Bookkeeping shared by every statement that invokes gl* entry points with
\* the object names hs as arguments.
GLCall(hs) ==
  /\ glCalled' = TRUE
  /\ glCalledUnloaded' = (glCalledUnloaded \/ glad # "ok" \/ ~contextCurrent)
  /\ usedAfterRelease' = usedAfterRelease \cup {h \in hs : deleteCalls[h] > 0}

\* ------------------------------------------------------------------ setup
\* Lines 77-80: glfwInit() and the window hints; the result is not tested.
InitGLFW ==
  /\ pc = "glfwInit"
  /\ \E ok \in BOOLEAN : glfwOK' = ok
  /\ pc' = "createWindow"
  /\ UNCHANGED << window, contextCurrent, glad, glVars, callVars, closeVars,
                  timeVars, frameVars, out, mainReturn >>

\* Variant: the NULL branch prints but does not return.
CreateWindow_NoReturn ==
  /\ pc = "createWindow"
  /\ \E ok \in (IF glfwOK THEN BOOLEAN ELSE {FALSE}) :
       IF ok
       THEN /\ window' = "ok"
            /\ UNCHANGED out
       ELSE /\ window' = "null"
            /\ out' = Append(out, << "Failed to create GLFW window", NoObject >>)
  /\ pc' = "makeContextCurrent"
  /\ UNCHANGED << glfwOK, contextCurrent, glad, glVars, callVars, closeVars,
                  timeVars, frameVars, mainReturn >>

\* Lines 82-83: glfwCreateWindow; NULL (always so when GLFW is not
\* initialised) prints a message and returns -1.
CreateWindow ==
  /\ pc = "createWindow"
  /\ \E ok \in (IF glfwOK THEN BOOLEAN ELSE {FALSE}) :
       IF ok
       THEN /\ window' = "ok"
            /\ pc' = "makeContextCurrent"
            /\ UNCHANGED << out, mainReturn >>
       ELSE /\ window' = "null"
            /\ out' = Append(out, << "Failed to create GLFW window", NoObject >>)
            /\ mainReturn' = << -1 >>
            /\ pc' = "exited"
  /\ UNCHANGED << glfwOK, contextCurrent, glad, glVars, callVars, closeVars,
                  timeVars, frameVars >>

\* Line 84: glfwMakeContextCurrent(window).
MakeContextCurrent ==
  /\ pc = "makeContextCurrent"
  /\ contextCurrent' = TRUE
  /\ pc' = "loadGL"
  /\ UNCHANGED << glfwOK, window, glad, glVars, callVars, closeVars,
                  timeVars, frameVars, out, mainReturn >>

\* Variant: the failure branch prints but does not return.
LoadGL_NoReturn ==
  /\ pc = "loadGL"
  /\ \E ok \in BOOLEAN :
       IF ok
       THEN /\ glad' = "ok"
            /\ UNCHANGED out
       ELSE /\ glad' = "failed"
            /\ out' = Append(out, << "Failed to init GLAD", NoObject >>)
  /\ pc' = "compileVertexShader"
  /\ UNCHANGED << glfwOK, window, contextCurrent, glVars, callVars,
                  closeVars, timeVars, frameVars, mainReturn >>

\* Line 87: gladLoadGLLoader; failure prints a message and returns -1.
LoadGL ==
  /\ pc = "loadGL"
  /\ \E ok \in BOOLEAN :
       IF ok
       THEN /\ glad' = "ok"
            /\ pc' = "compileVertexShader"
            /\ UNCHANGED << out, mainReturn >>
       ELSE /\ glad' = "failed"
            /\ out' = Append(out, << "Failed to init GLAD", NoObject >>)
            /\ mainReturn' = << -1 >>
            /\ pc' = "exited"
  /\ UNCHANGED << glfwOK, window, contextCurrent, glVars, callVars,
                  closeVars, timeVars, frameVars >>

\* glCreateShader, glShaderSource, glCompileShader for one stage; the
\* driver decides whether the compilation succeeds.
CompileShader(s, at, next) ==
  /\ pc = at
  /\ status' = [status EXCEPT ![s] = "live"]
  /\ \E ok \in BOOLEAN : compileStatus' = [compileStatus EXCEPT ![s] = ok]
  /\ GLCall({s})
  /\ pc' = next
  /\ UNCHANGED << deleteCalls, attached, linkStatus, bindVars, bufVars,
                  progVars, winVars, closeVars, timeVars, frameVars, out,
                  mainReturn >>

\* Variant: the test of the status is inverted.
checkCompile_Inverted(shader) ==
  /\ out' = IF compileStatus[shader]
            THEN Append(out, << "Shader compilation error", shader >>)
            ELSE out
  /\ GLCall({shader})

\* checkCompile (lines 49-59): query GL_COMPILE_STATUS, print the info log
\* when it is false, and return to the caller either way.
checkCompile(shader) ==
  /\ out' = IF ~compileStatus[shader]
            THEN Append(out, << "Shader compilation error", shader >>)
            ELSE out
  /\ GLCall({shader})

CheckCompileStep(s, at, next) ==
  /\ pc = at
  /\ checkCompile(s)
  /\ pc' = next
  /\ UNCHANGED << glVars, winVars, closeVars, timeVars, frameVars,
                  mainReturn >>

\* Lines 92-94, 96-98, 100-102.
CompileVertexShader ==
  CompileShader("vertexShader", "compileVertexShader", "checkVertexShader")
CheckVertexShader ==
  CheckCompileStep("vertexShader", "checkVertexShader", "compileNormalFrag")
CompileNormalFrag ==
  CompileShader("normalFrag", "compileNormalFrag", "checkNormalFrag")
CheckNormalFrag ==
  CheckCompileStep("normalFrag", "checkNormalFrag", "compileWaveFrag")
CompileWaveFrag ==
  CompileShader("waveFrag", "compileWaveFrag", "checkWaveFrag")
CheckWaveFrag ==
  CheckCompileStep("waveFrag", "checkWaveFrag", "linkNormalShader")

\* glCreateProgram, two glAttachShader, glLinkProgram. Linking fails when an
\* attached stage is not compiled; otherwise the driver decides.
LinkProgram(p, at, next) ==
  /\ pc = at
  /\ status' = [status EXCEPT ![p] = "live"]
  /\ attached' = [attached EXCEPT ![p] = {"vertexShader", FragmentOf(p)}]
  /\ \E ok \in (IF compileStatus["vertexShader"] /\ compileStatus[FragmentOf(p)]
                 THEN BOOLEAN ELSE {FALSE}) :
       linkStatus' = [linkStatus EXCEPT ![p] = ok]
  /\ GLCall({p, "vertexShader", FragmentOf(p)})
  /\ pc' = next
  /\ UNCHANGED << deleteCalls, compileStatus, bindVars, bufVars, progVars,
                  winVars, closeVars, timeVars, frameVars, out, mainReturn >>

\* checkLink (lines 62-72): query GL_LINK_STATUS, print the info log when it
\* is false, and return to the caller either way.
checkLink(program) ==
  /\ out' = IF ~linkStatus[program]
            THEN Append(out, << "Program linking error", program >>)
            ELSE out
  /\ GLCall({program})

CheckLinkStep(p, at, next) ==
  /\ pc = at
  /\ checkLink(p)
  /\ pc' = next
  /\ UNCHANGED << glVars, winVars, closeVars, timeVars, frameVars,
                  mainReturn >>

\* Lines 104-107, 109-112.
LinkNormalShader ==
  LinkProgram("normalShader", "linkNormalShader", "checkNormalShader")
CheckNormalShader ==
  CheckLinkStep("normalShader", "checkNormalShader", "linkWaveShader")
LinkWaveShader ==
  LinkProgram("waveShader", "linkWaveShader", "checkWaveShader")
CheckWaveShader ==
  CheckLinkStep("waveShader", "checkWaveShader", "deleteVertexShader")

\* glDeleteShader: a shader still attached to a program is only flagged for
\* deletion and lives on until it is detached.
DeleteShader(s, at, next) ==
  /\ pc = at
  /\ deleteCalls' = [deleteCalls EXCEPT ![s] = @ + 1]
  /\ status' = [status EXCEPT ![s] =
                  IF \E p \in Programs : s \in attached[p]
                  THEN "flagged" ELSE "deleted"]
  /\ GLCall({s})
  /\ pc' = next
  /\ UNCHANGED << attached, shVars, bindVars, bufVars, progVars, winVars,
                  closeVars, timeVars, frameVars, out, mainReturn >>

\* Lines 114-116.
DeleteVertexShader ==
  DeleteShader("vertexShader", "deleteVertexShader", "deleteNormalFrag")
DeleteNormalFrag ==
  DeleteShader("normalFrag", "deleteNormalFrag", "deleteWaveFrag")
DeleteWaveFrag ==
  DeleteShader("waveFrag", "deleteWaveFrag", "genObjects")

\* Lines 141-144: glGenVertexArrays, glGenBuffers, glGenBuffers.
GenObjects ==
  /\ pc = "genObjects"
  /\ status' = [o \in Objects |->
                  IF o \in Arrays \cup Buffers THEN "live" ELSE status[o]]
  /\ GLCall({})
  /\ pc' = "uploadGeometry"
  /\ UNCHANGED << deleteCalls, attached, shVars, bindVars, bufVars, progVars,
                  winVars, closeVars, timeVars, frameVars, out, mainReturn >>

\* glBufferData(target, ...): replaces the data store of the buffer bound to
\* the target; with no buffer bound the call is an error and stores nothing.
BufferData(data, buf, b) ==
  IF b = NoObject THEN data ELSE [data EXCEPT ![b] = buf]
CountWrite(writes, b) ==
  IF b = NoObject THEN writes ELSE [writes EXCEPT ![b] = @ + 1]

\* Variant: EBO is bound to GL_ARRAY_BUFFER, so the index upload finds no
\* element buffer bound.
UploadGeometry_WrongTarget ==
  /\ pc = "uploadGeometry"
  /\ boundVAO' = "VAO"
  /\ arrayBuffer' = "EBO"
  /\ vaoElementBuffer' = NoObject
  /\ bufData' = BufferData(BufferData(bufData, vertices, "VBO"),
                           indices, NoObject)
  /\ bufWrites' = CountWrite(CountWrite(bufWrites, "VBO"), NoObject)
  /\ GLCall({"VAO", "VBO", "EBO"})
  /\ pc' = "setAttribs"
  /\ UNCHANGED << objVars, shVars, vaoAttribs, progVars, winVars, closeVars,
                  timeVars, frameVars, out, mainReturn >>

\* Lines 146-151: bind the VAO, bind and fill VBO, bind and fill EBO.
UploadGeometry ==
  /\ pc = "uploadGeometry"
  /\ boundVAO' = "VAO"
  /\ arrayBuffer' = "VBO"
  /\ vaoElementBuffer' = "EBO"
  /\ bufData' = BufferData(BufferData(bufData, vertices, "VBO"),
                           indices, "EBO")
  /\ bufWrites' = CountWrite(CountWrite(bufWrites, "VBO"), "EBO")
  /\ GLCall({"VAO", "VBO", "EBO"})
  /\ pc' = "setAttribs"
  /\ UNCHANGED << objVars, shVars, vaoAttribs, progVars, winVars, closeVars,
                  timeVars, frameVars, out, mainReturn >>

\* Lines 153-160: attribute 0 = 3 floats at offset 0, attribute 1 = 2 floats
\* at offset 3 floats, stride 5 floats; then unbind the VAO.
SetAttribs ==
  /\ pc = "setAttribs"
  /\ vaoAttribs' = { [index |-> 0, size |-> 3, stride |-> 5, offset |-> 0,
                      buffer |-> arrayBuffer],
                     [index |-> 1, size |-> 2, stride |-> 5, offset |-> 3,
                      buffer |-> arrayBuffer] }
  /\ boundVAO' = NoObject
  /\ GLCall({})
  /\ pc' = "loopTest"
  /\ UNCHANGED << objVars, shVars, arrayBuffer, vaoElementBuffer, bufVars,
                  progVars, winVars, closeVars, timeVars, frameVars, out,
                  mainReturn >>

\* ------------------------------------------------------------ render loop
\* Line 165: while (!glfwWindowShouldClose(window)).
LoopTest ==
  /\ pc = "loopTest"
  /\ IF ~shouldClose
     THEN /\ frame < MaxFrames
          /\ frame' = frame + 1
          /\ trace' = << >>
          /\ drawLog' = << >>
          /\ sampled' = << >>
          /\ framesAfterRequest' =
               IF closePending THEN framesAfterRequest + 1
               ELSE framesAfterRequest
          /\ pc' = "clear"
     ELSE /\ pc' = "deleteVAO"
          /\ UNCHANGED << frame, trace, drawLog, sampled, framesAfterRequest >>
  /\ UNCHANGED << glVars, callVars, winVars, closePending, shouldClose, now,
                  timeValue, timeLoc, out, mainReturn >>

\* Lines 167-168: glClearColor, glClear(GL_COLOR_BUFFER_BIT).
Clear ==
  /\ pc = "clear"
  /\ trace' = Append(trace, "clear")
  /\ GLCall({})
  /\ pc' = "bindVAO"
  /\ UNCHANGED << glVars, winVars, closeVars, timeVars, drawLog, frame, out,
                  mainReturn >>

\* Line 170: glBindVertexArray(VAO).
BindVAO ==
  /\ pc = "bindVAO"
  /\ boundVAO' = "VAO"
  /\ trace' = Append(trace, "bindVAO")
  /\ GLCall({"VAO"})
  /\ pc' = "useNormalShader"
  /\ UNCHANGED << objVars, shVars, arrayBuffer, vaoElementBuffer, vaoAttribs,
                  bufVars, progVars, winVars, closeVars, timeVars, drawLog,
                  frame, out, mainReturn >>

\* glUseProgram(p): a program that exists and is linked becomes current; for
\* any other the call raises a GL error and leaves the current program alone.
UseProgram(p) ==
  /\ currentProgram' = IF status[p] = "live" /\ linkStatus[p]
                       THEN p ELSE currentProgram
  /\ lastUse' = p
  /\ GLCall({p})

\* Line 174.
UseNormalShader ==
  /\ pc = "useNormalShader"
  /\ UseProgram("normalShader")
  /\ trace' = Append(trace, "useFlat")
  /\ pc' = "drawQuad1"
  /\ UNCHANGED << objVars, shVars, bindVars, bufVars, uniformTime,
                  timeReceivers, uniformCalls, winVars, closeVars, timeVars,
                  drawLog, frame, out, mainReturn >>

\* The element buffer a draw call reads: the one recorded in the bound VAO.
ElementStore ==
  IF boundVAO = "VAO" /\ vaoElementBuffer # NoObject
  THEN bufData[vaoElementBuffer] ELSE << >>

\* glDrawElements(GL_TRIANGLES, count, GL_UNSIGNED_INT, (void*)byteOffset):
\* the draw call as the GL sees it.
DrawElements(count, byteOffset) ==
  LET first == byteOffset \div SizeofUInt
      store == ElementStore
  IN  [ program   |-> currentProgram,
        requested |-> lastUse,
        vao       |-> boundVAO,
        count     |-> count,
        first     |-> first,
        fetched   |-> [i \in {j \in 1..count : first + j <= Len(store)}
                        |-> store[first + i]],
        time      |-> uniformTime ]

\* Line 175: glDrawElements(GL_TRIANGLES, 6, GL_UNSIGNED_INT, (void*)0).
DrawQuad1 ==
  /\ pc = "drawQuad1"
  /\ drawLog' = Append(drawLog, DrawElements(DrawCount, 0))
  /\ trace' = Append(trace, "draw1")
  /\ GLCall({boundVAO, vaoElementBuffer, currentProgram} \ {NoObject})
  /\ pc' = "useWaveShader"
  /\ UNCHANGED << glVars, winVars, closeVars, timeVars, frame, out,
                  mainReturn >>

\* Variant: the second quad is drawn right after the program switch.
UseWaveShader_SkipsTime ==
  /\ pc = "useWaveShader"
  /\ UseProgram("waveShader")
  /\ trace' = Append(trace, "useWave")
  /\ pc' = "drawQuad2"
  /\ UNCHANGED << objVars, shVars, bindVars, bufVars, uniformTime,
                  timeReceivers, uniformCalls, winVars, closeVars, timeVars,
                  drawLog, frame, out, mainReturn >>

\* Line 178.
UseWaveShader ==
  /\ pc = "useWaveShader"
  /\ UseProgram("waveShader")
  /\ trace' = Append(trace, "useWave")
  /\ pc' = "getTime"
  /\ UNCHANGED << objVars, shVars, bindVars, bufVars, uniformTime,
                  timeReceivers, uniformCalls, winVars, closeVars, timeVars,
                  drawLog, frame, out, mainReturn >>

\* Line 179: float timeValue = glfwGetTime(); the clock is monotonic.
GetTime ==
  /\ pc = "getTime"
  /\ \E d \in TimeSteps :
       /\ now' = now + d
       /\ sampled' = Append(sampled, now + d)
       /\ timeValue' = ToFloat(now + d)
  /\ trace' = Append(trace, "sampleTime")
  /\ pc' = "getUniformLocation"
  /\ UNCHANGED << glVars, callVars, winVars, closeVars, timeLoc, drawLog,
                  frame, out, mainReturn >>

\* glGetUniformLocation(p, "time"): -1 unless p is linked and has the uniform.
GetUniformLocation(p) ==
  IF status[p] = "live" /\ linkStatus[p] /\ HasTimeUniform(p) THEN 0 ELSE -1

\* Variant: the location is looked up in the flat program.
GetTimeLoc_WrongProgram ==
  /\ pc = "getUniformLocation"
  /\ timeLoc' = GetUniformLocation("normalShader")
  /\ GLCall({"normalShader"})
  /\ pc' = "setUniform"
  /\ UNCHANGED << glVars, winVars, closeVars, now, sampled, timeValue,
                  frameVars, out, mainReturn >>

\* Line 180.
GetTimeLoc ==
  /\ pc = "getUniformLocation"
  /\ timeLoc' = GetUniformLocation("waveShader")
  /\ GLCall({"waveShader"})
  /\ pc' = "setUniform"
  /\ UNCHANGED << glVars, winVars, closeVars, now, sampled, timeValue,
                  frameVars, out, mainReturn >>

\* glUniform1f(loc, v) acts on the current program; location -1 is silently
\* ignored, and a location the current program does not have is an error.
Uniform1f(loc, v) ==
  LET effective == /\ loc = 0
                   /\ currentProgram # NoObject
                   /\ HasTimeUniform(currentProgram)
  IN  /\ uniformTime' = IF effective
                        THEN [uniformTime EXCEPT ![currentProgram] = v]
                        ELSE uniformTime
      /\ timeReceivers' = IF effective
                          THEN timeReceivers \cup {currentProgram}
                          ELSE timeReceivers
      /\ uniformCalls' = uniformCalls \cup {<< currentProgram, loc >>}
      /\ GLCall({currentProgram} \ {NoObject})

\* Line 181.
SetTimeUniform ==
  /\ pc = "setUniform"
  /\ Uniform1f(timeLoc, timeValue)
  /\ trace' = Append(trace, "writeTime")
  /\ pc' = "drawQuad2"
  /\ UNCHANGED << objVars, shVars, bindVars, bufVars, currentProgram, lastUse,
                  winVars, closeVars, timeVars, drawLog, frame, out,
                  mainReturn >>

\* Variant: the second draw starts at byte offset 0 like the first.
DrawQuad2_SameOffset ==
  /\ pc = "drawQuad2"
  /\ drawLog' = Append(drawLog, DrawElements(DrawCount, 0))
  /\ trace' = Append(trace, "draw2")
  /\ GLCall({boundVAO, vaoElementBuffer, currentProgram} \ {NoObject})
  /\ pc' = "swapBuffers"
  /\ UNCHANGED << glVars, winVars, closeVars, timeVars, frame, out,
                  mainReturn >>

\* Line 182: glDrawElements(..., 6, ..., (void*)(6 * sizeof(unsigned int))).
DrawQuad2 ==
  /\ pc = "drawQuad2"
  /\ drawLog' = Append(drawLog,
                       DrawElements(DrawCount, SecondQuadFirstIndex * SizeofUInt))
  /\ trace' = Append(trace, "draw2")
  /\ GLCall({boundVAO, vaoElementBuffer, currentProgram} \ {NoObject})
  /\ pc' = "swapBuffers"
  /\ UNCHANGED << glVars, winVars, closeVars, timeVars, frame, out,
                  mainReturn >>

\* Line 184: glfwSwapBuffers(window).
SwapBuffers ==
  /\ pc = "swapBuffers"
  /\ trace' = Append(trace, "swap")
  /\ pc' = "pollEvents"
  /\ UNCHANGED << glVars, callVars, winVars, closeVars, timeVars, drawLog,
                  frame, out, mainReturn >>

\* Variant: the event pump never raises the close flag.
PollEvents_DropsClose ==
  /\ pc = "pollEvents"
  /\ trace' = Append(trace, "poll")
  /\ pc' = "loopTest"
  /\ UNCHANGED << glVars, callVars, winVars, closeVars, timeVars, drawLog,
                  frame, out, mainReturn >>

\* Line 185: glfwPollEvents(); a pending close request sets the close flag.
PollEvents ==
  /\ pc = "pollEvents"
  /\ shouldClose' = (shouldClose \/ closePending)
  /\ trace' = Append(trace, "poll")
  /\ pc' = "loopTest"
  /\ UNCHANGED << glVars, callVars, winVars, closePending, framesAfterRequest,
                  timeVars, drawLog, frame, out, mainReturn >>

\* The user asks the window to close; this can happen at any time while the
\* window exists and reaches the program only through glfwPollEvents.
CloseRequest ==
  /\ window = "ok"
  /\ pc # "exited"
  /\ ~closePending
  /\ closePending' = TRUE
  /\ UNCHANGED << pc, glVars, callVars, winVars, shouldClose,
                  framesAfterRequest, timeVars, frameVars, out, mainReturn >>

\* ---------------------------------------------------------------- cleanup
\* Line 189: glDeleteVertexArrays(1, &VAO); a bound VAO is unbound.
DeleteVAO ==
  /\ pc = "deleteVAO"
  /\ deleteCalls' = [deleteCalls EXCEPT !["VAO"] = @ + 1]
  /\ status' = [status EXCEPT !["VAO"] = "deleted"]
  /\ boundVAO' = IF boundVAO = "VAO" THEN NoObject ELSE boundVAO
  /\ GLCall({"VAO"})
  /\ pc' = "deleteVBO"
  /\ UNCHANGED << attached, shVars, arrayBuffer, vaoElementBuffer, vaoAttribs,
                  bufVars, progVars, winVars, closeVars, timeVars, frameVars,
                  out, mainReturn >>

\* glDeleteBuffers(1, &b): frees the data store and resets bindings to it.
DeleteBuffer(b, at, next) ==
  /\ pc = at
  /\ deleteCalls' = [deleteCalls EXCEPT ![b] = @ + 1]
  /\ status' = [status EXCEPT ![b] = "deleted"]
  /\ bufData' = [bufData EXCEPT ![b] = << >>]
  /\ arrayBuffer' = IF arrayBuffer = b THEN NoObject ELSE arrayBuffer
  /\ GLCall({b})
  /\ pc' = next
  /\ UNCHANGED << attached, shVars, boundVAO, vaoElementBuffer, vaoAttribs,
                  bufWrites, progVars, winVars, closeVars, timeVars, frameVars,
                  out, mainReturn >>

\* Line 190.
DeleteVBO == DeleteBuffer("VBO", "deleteVBO", "deleteEBO")

\* Variant: the second glDeleteBuffers names VBO again.
DeleteEBO_Repeat == DeleteBuffer("VBO", "deleteEBO", "deleteNormalShader")

\* Line 191.
DeleteEBO == DeleteBuffer("EBO", "deleteEBO", "deleteNormalShader")

\* glDeleteProgram(p): the current program is only flagged for deletion; any
\* other is deleted, detaching its shaders, and a shader flagged for deletion
\* that is no longer attached anywhere is deleted with it.
DeleteProgram(p, at, next) ==
  /\ pc = at
  /\ deleteCalls' = [deleteCalls EXCEPT ![p] = @ + 1]
  /\ IF currentProgram = p
     THEN /\ status' = [status EXCEPT ![p] = "flagged"]
          /\ UNCHANGED attached
     ELSE /\ attached' = [attached EXCEPT ![p] = {}]
          /\ status' =
               [o \in Objects |->
                  IF o = p THEN "deleted"
                  ELSE IF /\ o \in Shaders
                          /\ status[o] = "flagged"
                          /\ \A q \in Programs \ {p} : o \notin attached[q]
                       THEN "deleted"
                  ELSE status[o]]
  /\ GLCall({p})
  /\ pc' = next
  /\ UNCHANGED << shVars, bindVars, bufVars, progVars, winVars, closeVars,
                  timeVars, frameVars, out, mainReturn >>

\* Lines 192-193.
DeleteNormalShader ==
  DeleteProgram("normalShader", "deleteNormalShader", "deleteWaveShader")
DeleteWaveShader ==
  DeleteProgram("waveShader", "deleteWaveShader", "terminate")

\* Lines 195-196: glfwTerminate() destroys the window and its context, and
\* with the context every object still alive in it; then return 0.
Terminate ==
  /\ pc = "terminate"
  /\ window' = "destroyed"
  /\ contextCurrent' = FALSE
  /\ status' = [o \in Objects |->
                  IF status[o] = "none" THEN "none" ELSE "deleted"]
  /\ attached' = [p \in Programs |-> {}]
  /\ currentProgram' = NoObject
  /\ mainReturn' = << 0 >>
  /\ pc' = "exited"
  /\ UNCHANGED << glfwOK, glad, deleteCalls, shVars, bindVars, bufVars,
                  lastUse, uniformTime, timeReceivers, uniformCalls, callVars,
                  closeVars, timeVars, frameVars, out >>

\* The statements of main(), in program order.
ProgramStep ==
  \/ InitGLFW \/ CreateWindow \/ MakeContextCurrent \/ LoadGL
  \/ CompileVertexShader \/ CheckVertexShader
  \/ CompileNormalFrag \/ CheckNormalFrag
  \/ CompileWaveFrag \/ CheckWaveFrag
  \/ LinkNormalShader \/ CheckNormalShader
  \/ LinkWaveShader \/ CheckWaveShader
  \/ DeleteVertexShader \/ DeleteNormalFrag \/ DeleteWaveFrag
  \/ GenObjects \/ UploadGeometry \/ SetAttribs
  \/ LoopTest \/ Clear \/ BindVAO \/ UseNormalShader \/ DrawQuad1
  \/ UseWaveShader \/ GetTime \/ GetTimeLoc \/ SetTimeUniform \/ DrawQuad2
  \/ SwapBuffers \/ PollEvents
  \/ DeleteVAO \/ DeleteVBO \/ DeleteEBO
  \/ DeleteNormalShader \/ DeleteWaveShader \/ Terminate

Next == ProgramStep \/ CloseRequest

Spec == Init /\ [][Next]_vars

\* main() keeps running: a statement that can execute eventually does.
FairSpec == Spec /\ WF_vars(ProgramStep)

\* ============================================================ properties
Range(f) == {f[i] : i \in DOMAIN f}
IsPrefix(a, b) == Len(a) <= Len(b) /\ \A i \in 1..Len(a) : a[i] = b[i]
Emitted(msg) == Cardinality({i \in DOMAIN out : out[i] = msg})

BeforeDraw1 == {"clear", "bindVAO", "useNormalShader", "drawQuad1"}
BeforeDraw2 == {"useWaveShader", "getTime", "getUniformLocation",
                "setUniform", "drawQuad2"}
AfterDraw2  == {"swapBuffers", "pollEvents"}
LoopBody    == BeforeDraw1 \cup BeforeDraw2 \cup AfterDraw2
AfterLoop   == {"deleteVAO", "deleteVBO", "deleteEBO", "deleteNormalShader",
                "deleteWaveShader", "terminate"}
\* A whole iteration has run and no new one has begun.
FrameComplete ==
  \/ pc \in AfterLoop
  \/ pc = "loopTest" /\ frame >= 1
  \/ pc = "exited" /\ frame >= 1

\* The number of draw calls the current frame has issued at each statement.
DrawsSoFar ==
  /\ pc \in BeforeDraw1 => Len(drawLog) = 0
  /\ pc \in BeforeDraw2 => Len(drawLog) = 1
  /\ (pc \in AfterDraw2 \/ FrameComplete) => Len(drawLog) = 2
  /\ Len(drawLog) <= 2
ProgramOfDraw(k) == IF k = 1 THEN "normalShader" ELSE "waveShader"
FirstOfDraw(k) == IF k = 1 THEN 0 ELSE SecondQuadFirstIndex

\* C1 (as stated): every frame issues exactly two draw calls, the first of 6
\* indices at offset 0 with the flat program active, the second of 6 indices
\* at offset 6 with the wave program active.
C1_Original ==
  /\ DrawsSoFar
  /\ \A k \in DOMAIN drawLog :
       /\ drawLog[k].count = 6
       /\ drawLog[k].first = FirstOfDraw(k)
       /\ drawLog[k].program = ProgramOfDraw(k)

\* C1 (amended): every frame issues exactly two draw calls, 6 indices at
\* offset 0 and 6 indices at offset 6, the first right after glUseProgram of
\* the flat program and the second right after glUseProgram of the wave
\* program; the requested program is the active one at its draw exactly when
\* it linked successfully.
C1_TwoDraws ==
  /\ DrawsSoFar
  /\ \A k \in DOMAIN drawLog :
       /\ drawLog[k].count = 6
       /\ drawLog[k].first = FirstOfDraw(k)
       /\ drawLog[k].requested = ProgramOfDraw(k)
       /\ drawLog[k].program = ProgramOfDraw(k) <=> linkStatus[ProgramOfDraw(k)]

C1_Witness ==
  /\ pc = "swapBuffers"
  /\ frame = 2
  /\ Len(drawLog) = 2
  /\ drawLog[1].program = "normalShader"
  /\ drawLog[2].program = "normalShader"
  /\ drawLog[2].requested = "waveShader"

FrameOrder == << "clear", "bindVAO", "useFlat", "draw1", "useWave",
                 "sampleTime", "writeTime", "draw2", "swap", "poll" >>
\* The events a frame has produced when main() is about to execute pc.
EventsBefore ==
  [ clear |-> 0, bindVAO |-> 1, useNormalShader |-> 2, drawQuad1 |-> 3,
    useWaveShader |-> 4, getTime |-> 5, getUniformLocation |-> 6,
    setUniform |-> 6, drawQuad2 |-> 7, swapBuffers |-> 8, pollEvents |-> 9 ]

\* C2: the events of a frame occur in the order clear, bind vertex array,
\* activate flat, draw quad 1, activate wave, sample time, write time, draw
\* quad 2, swap, poll; so no draw precedes the clear and the bind of its
\* frame or follows its swap.
C2_FrameOrder ==
  /\ IsPrefix(trace, FrameOrder)
  /\ pc \in LoopBody => Len(trace) = EventsBefore[pc]
  /\ FrameComplete => trace = FrameOrder
  /\ frame = 0 => trace = << >>

C2_Witness ==
  /\ pc = "loopTest"
  /\ frame = 2
  /\ trace = FrameOrder

\* C3 (as stated): at the wave draw call the wave program's time uniform
\* holds the elapsed time sampled in the same frame; the uniform is written
\* only while the wave program is active, and the flat program never
\* receives a time value.
C3_Original ==
  /\ Len(drawLog) = 2 =>
       /\ Len(sampled) = 1
       /\ drawLog[2].time["waveShader"] = sampled[1]
  /\ \A c \in uniformCalls : c[1] = "waveShader"
  /\ "normalShader" \notin timeReceivers

\* C3 (amended): when the wave program linked, its time uniform holds at the
\* wave draw call the elapsed time sampled in the same frame, narrowed to
\* single precision, and the write happens with the wave program active;
\* when it did not link, the write is issued with location -1 and changes
\* nothing; the flat program never receives a time value.
C3_FreshTime ==
  /\ Len(drawLog) = 2 =>
       /\ Len(sampled) = 1
       /\ linkStatus["waveShader"] =>
            drawLog[2].time["waveShader"] = ToFloat(sampled[1])
       /\ ~linkStatus["waveShader"] => drawLog[2].time["waveShader"] = 0
  /\ \A c \in uniformCalls :
       IF linkStatus["waveShader"]
       THEN c = << "waveShader", 0 >>
       ELSE c[2] = -1 /\ c[1] # "waveShader"
  /\ timeReceivers \subseteq {"waveShader"}

C3_Witness ==
  /\ pc = "swapBuffers"
  /\ frame = 2
  /\ linkStatus["waveShader"]
  /\ drawLog[2].time["waveShader"] = ToFloat(sampled[1])
  /\ ToFloat(sampled[1]) # sampled[1]
  /\ "waveShader" \in timeReceivers

LoopExitStep ==
  /\ shouldClose => frame' = frame
  /\ (pc = "loopTest" /\ pc' # pc) =>
       pc' = (IF shouldClose THEN "deleteVAO" ELSE "clear")

\* C4: once the close flag is set no new frame starts, the loop is left at
\* its next test and the program tears down and returns; at most one frame
\* starts after the user's close request; the loop is never left while no
\* close has been requested.
C4_CloseExits ==
  /\ [][LoopExitStep]_vars
  /\ [](framesAfterRequest <= 1)
  /\ []((pc \in AfterLoop \/ (pc = "exited" /\ frame >= 1)) =>
           (shouldClose /\ closePending))
  /\ (shouldClose ~> (pc = "exited" /\ mainReturn = << 0 >>))

C4_Witness ==
  /\ pc = "exited"
  /\ mainReturn = << 0 >>
  /\ frame = 2
  /\ framesAfterRequest = 1

\* C5: each of the vertex array, the two buffers and the two programs is
\* released exactly once, after the loop has exited, and no object is passed
\* to a call after its release.
C5_ReleasedOnce ==
  /\ \A r \in Resources :
       /\ deleteCalls[r] <= 1
       /\ deleteCalls[r] = 1 => (pc \in AfterLoop \cup {"exited"} /\ shouldClose)
  /\ (pc = "exited" /\ frame >= 1) =>
       \A r \in Resources : deleteCalls[r] = 1 /\ status[r] = "deleted"
  /\ \A s \in Shaders : deleteCalls[s] <= 1
  /\ usedAfterRelease = {}

C5_Witness ==
  /\ pc = "exited"
  /\ mainReturn = << 0 >>
  /\ \A o \in Objects : deleteCalls[o] = 1 /\ status[o] = "deleted"

\* C6: every index in the index buffer is in 0..7; the first draw call reads
\* only indices in 0..3 and the second only indices in 4..7, so the quads
\* share no vertex.
C6_IndexRanges ==
  /\ \A i \in DOMAIN bufData["EBO"] : bufData["EBO"][i] \in 0..7
  /\ bufWrites["EBO"] = 1 /\ deleteCalls["EBO"] = 0 => Len(bufData["EBO"]) = 12
  /\ \A k \in DOMAIN drawLog :
       /\ DOMAIN drawLog[k].fetched = 1..6
       /\ Range(drawLog[k].fetched) \subseteq (IF k = 1 THEN 0..3 ELSE 4..7)
  /\ Len(drawLog) = 2 =>
       Range(drawLog[1].fetched) \cap Range(drawLog[2].fetched) = {}

C6_Witness ==
  /\ pc = "swapBuffers"
  /\ Range(drawLog[1].fetched) = 0..3
  /\ Range(drawLog[2].fetched) = 4..7

CheckLabel(o) ==
  [ vertexShader |-> "checkVertexShader", normalFrag |-> "checkNormalFrag",
    waveFrag |-> "checkWaveFrag", normalShader |-> "checkNormalShader",
    waveShader |-> "checkWaveShader" ][o]
\* The status of o has been queried by checkCompile or checkLink.
Checked(o) == status[o] # "none" /\ pc # CheckLabel(o)
Diagnostic(o) ==
  IF o \in Shaders THEN << "Shader compilation error", o >>
  ELSE << "Program linking error", o >>
Succeeded(o) == IF o \in Shaders THEN compileStatus[o] ELSE linkStatus[o]

\* C7: for each of the three compilations and the two links a diagnostic is
\* printed exactly when the status query reports failure, and no outcome
\* stops the program: it goes on to upload the geometry and enter the loop.
C7_Diagnostics ==
  /\ [](\A o \in Shaders \cup Programs :
          Emitted(Diagnostic(o)) =
            (IF Checked(o) /\ ~Succeeded(o) THEN 1 ELSE 0))
  /\ []((pc = "exited" /\ glad = "ok") => frame >= 1)
  /\ (pc = "compileVertexShader" ~>
         (pc = "clear" /\ frame = 1 /\ \A b \in Buffers : bufWrites[b] = 1))

C7_Witness ==
  /\ pc = "clear"
  /\ frame = 1
  /\ compileStatus["vertexShader"] /\ compileStatus["normalFrag"]
  /\ ~compileStatus["waveFrag"]
  /\ ~linkStatus["normalShader"]
  /\ out = << Diagnostic("waveFrag"), Diagnostic("normalShader"),
              Diagnostic("waveShader") >>

\* C8: main returns 0 exactly when it ends through the close of the window;
\* when window creation or function loading fails it returns a negative
\* code at once, with no shader compiled, no GL object created and no frame.
C8_ExitCode ==
  /\ pc = "exited" <=> mainReturn # << >>
  /\ pc = "exited" =>
       (mainReturn = << 0 >> <=> (shouldClose /\ frame >= 1 /\ window = "destroyed"))
  /\ (window = "null" \/ glad = "failed") =>
       /\ pc = "exited"
       /\ mainReturn[1] < 0
       /\ \A o \in Objects : status[o] = "none"
       /\ ~glCalled
       /\ frame = 0 /\ trace = << >>

C8_Witness ==
  /\ glad = "failed"
  /\ window = "ok"
  /\ closePending
  /\ mainReturn = << -1 >>

GeometryOf(b) == IF b = "VBO" THEN vertices ELSE indices

LoopKeepsBuffers ==
  pc \in LoopBody \cup {"loopTest"} =>
    (bufData' = bufData /\ bufWrites' = bufWrites)

\* C9: each buffer is written once, before the first frame; no statement of
\* the loop changes a buffer, and from upload to teardown each buffer holds
\* what was uploaded.
C9_Immutable ==
  /\ [](\A b \in Buffers :
          /\ bufWrites[b] <= 1
          /\ frame >= 1 => bufWrites[b] = 1
          /\ bufWrites[b] = 0 => bufData[b] = << >>
          /\ (bufWrites[b] = 1 /\ deleteCalls[b] = 0) =>
               bufData[b] = GeometryOf(b))
  /\ [][LoopKeepsBuffers]_vars

C9_Witness ==
  /\ pc = "pollEvents"
  /\ frame = 2
  /\ bufData["VBO"] = vertices
  /\ bufData["EBO"] = indices

\* C10: no gl* entry point is invoked before the function loader succeeded
\* with a current context; when the loader fails none is invoked at all.
C10_LoadedFirst ==
  /\ ~glCalledUnloaded
  /\ glCalled => glad = "ok"
  /\ glad = "ok" => window # "null" /\ (contextCurrent \/ pc = "exited")

C10_Witness ==
  /\ pc = "checkVertexShader"
  /\ glCalled
  /\ glad = "ok"
  /\ contextCurrent

====
